---- MODULE Spec2Model ----
(***************************************************************************)
(* Model of pkg/kbld/registry/registry.go: the registry client facade,     *)
(* its constructor, the HTTP transport factory and the retry executor.     *)
(*                                                                         *)
(* The registry-protocol library (regname / regremote), the file system    *)
(* and the system certificate store are external: every call into them     *)
(* returns a nondeterministically chosen result.  Every external call and  *)
(* every time.Sleep is appended to the variable trace, in program order.   *)
(*                                                                         *)
(* An error value is a sequence of message tokens; nil is the empty        *)
(* sequence.  fmt.Errorf("<prefix>: %s", err) prepends the prefix token.   *)
(***************************************************************************)
EXTENDS Integers, Sequences, FiniteSets, TLC

\* ------------------------------------------------------------------ bounds
\* number of distinct errors the registry-protocol layer may return
MaxErrKinds == 2
\* number of distinct CA certificate files in the file system
MaxPathNames == 2
\* longest Opts.CACertPaths list
MaxPaths == 2

ErrNames == <<"EOF", "unauthorized", "timeout", "refused", "reset">>
PathNames == <<"ca1.pem", "ca2.pem", "ca3.pem", "ca4.pem">>

\* --------------------------------------------------------------- constants
MaxTries_Four == 4
\* registry.go:194  for i := 0; i < 5; i++
MaxTries == 5

Nil == <<>>
RegErrs == {<<ErrNames[n]>> : n \in 1..MaxErrKinds}
RefErrs == {<<"could not parse reference">>}
Paths == {PathNames[n] : n \in 1..MaxPathNames}
FileStates == {"ok", "unreadable", "nocert"}

\* fmt.Errorf("<prefix>%s", err)
Errorf(prefix, err) == <<prefix>> \o err

ReadOps == {"Generic", "Image", "Index", "ListTags"}
WriteOps == {"WriteImage", "WriteIndex", "WriteTag"}

\* the first reference-normalising call of each facade operation
ParseFn(o) ==
    CASE o = "WriteTag" -> "name.NewTag"
      [] o = "ListTags" -> "name.NewRepository"
      [] OTHER -> "name.ParseReference"

\* the registry-protocol function behind each single-call operation
RemoteFn(o) ==
    CASE o = "Generic" -> "remote.Get"
      [] o = "Image" -> "remote.Image"
      [] o = "Index" -> "remote.Index"
      [] o = "ListTags" -> "remote.List"
      [] o = "WriteImage" -> "remote.Write"
      [] o = "WriteIndex" -> "remote.WriteIndex"

\* the message of the fmt.Errorf that wraps retry's error
Label(o) ==
    CASE o = "WriteImage" -> "Writing image: "
      [] o = "WriteIndex" -> "Writing image index: "
      [] o = "WriteTag" -> "Writing image tag: "

RemoteFns == {"remote.Get", "remote.Image", "remote.Index", "remote.List",
              "remote.Write", "remote.WriteIndex", "remote.Tag"}
ParseFns == {"name.ParseReference", "name.NewTag", "name.NewDigest",
             "name.NewRepository"}

Event(f, r) == [fn |-> f, res |-> r]
SleepEvent == Event("time.Sleep", Nil)

VARIABLES
    lit,        \* the Opts literal handed to NewRegistry (VerifyCerts may be omitted)
    fs,         \* file system: state of each CA certificate file
    sysOK,      \* whether x509.SystemCertPool() succeeds
    registry,   \* the Registry value returned by NewRegistry
    newErr,     \* the error returned by NewRegistry
    filesRead,  \* the paths handed to os.ReadFile, in order
    pc,         \* position of the caller inside the current call
    op,         \* the facade operation being executed
    i,          \* loop counter of retry
    lastErr,    \* lastErr of retry
    attempts,   \* results of the doFunc invocations of retry, in order
    retryRet,   \* value returned by retry
    ret,        \* error returned by the facade operation
    trace       \* external calls and sleeps of the current call, in order

newVars == <<lit, fs, sysOK, registry, newErr, filesRead>>
opVars == <<op, i, lastErr, attempts, retryRet, ret, trace>>
vars == <<lit, fs, sysOK, registry, newErr, filesRead, pc, op, i, lastErr,
          attempts, retryRet, ret, trace>>

\* ------------------------------------------------------------ construction
\* type Opts struct: a bool field left out of the literal is false
Opts(l) ==
    [CACertPaths |-> l.CACertPaths,
     VerifyCerts |-> (l.VerifyCerts = "true"),
     Insecure |-> l.Insecure,
     EnvAuthPrefix |-> l.EnvAuthPrefix]

NilTransport == [isNil |-> TRUE, RootCAs |-> {}, InsecureSkipVerify |-> FALSE]
ZeroRegistry == [opts |-> <<>>, refOpts |-> <<>>]

\* the loop over opts.CACertPaths, from index k on
RECURSIVE LoadCerts(_, _, _, _, _)
LoadCerts(paths, files, k, pool, read) ==
    IF k > Len(paths)
    THEN [err |-> Nil, pool |-> pool, read |-> read]
    ELSE LET path == paths[k] IN
         IF files[path] = "unreadable"
         THEN [err |-> <<"Reading CA certificates from ", path, ": ", "open failed">>,
               pool |-> pool, read |-> Append(read, path)]
         ELSE IF files[path] = "nocert"
         THEN [err |-> <<"Adding CA certificates from ", path, ": failed">>,
               pool |-> pool, read |-> Append(read, path)]
         ELSE LoadCerts(paths, files, k + 1, pool \cup {path}, Append(read, path))

\* the same loop, but carrying on after a failure and reporting the last one
RECURSIVE LoadCertsAll(_, _, _, _, _, _)
LoadCertsAll(paths, files, k, pool, read, err) ==
    IF k > Len(paths)
    THEN [err |-> err, pool |-> pool, read |-> read]
    ELSE LET path == paths[k] IN
         IF files[path] = "unreadable"
         THEN LoadCertsAll(paths, files, k + 1, pool, Append(read, path),
                  <<"Reading CA certificates from ", path, ": ", "open failed">>)
         ELSE IF files[path] = "nocert"
         THEN LoadCertsAll(paths, files, k + 1, pool, Append(read, path),
                  <<"Adding CA certificates from ", path, ": failed">>)
         ELSE LoadCertsAll(paths, files, k + 1, pool \cup {path},
                  Append(read, path), err)

newHTTPTransport_NoFailFast(opts, files, sys) ==
    LET pool0 == IF sys THEN {"system"} ELSE {}
        l == LoadCertsAll(opts.CACertPaths, files, 1, pool0, <<>>, Nil)
    IN  IF l.err # Nil
        THEN [transport |-> NilTransport, err |-> l.err, read |-> l.read]
        ELSE [transport |-> [isNil |-> FALSE, RootCAs |-> l.pool,
                             InsecureSkipVerify |-> (opts.VerifyCerts = FALSE)],
              err |-> Nil, read |-> l.read]

newHTTPTransport(opts, files, sys) ==
    LET pool0 == IF sys THEN {"system"} ELSE {}
        l == LoadCerts(opts.CACertPaths, files, 1, pool0, <<>>)
    IN  IF l.err # Nil
        THEN [transport |-> NilTransport, err |-> l.err, read |-> l.read]
        ELSE [transport |-> [isNil |-> FALSE, RootCAs |-> l.pool,
                             InsecureSkipVerify |-> (opts.VerifyCerts = FALSE)],
              err |-> Nil, read |-> l.read]

\* the value NewRegistry returns for an Opts value
NewRegistryResult(opts, files, sys) ==
    LET keychain == <<opts.EnvAuthPrefix, "DefaultKeychain">>
        t == newHTTPTransport(opts, files, sys)
        refOpts == IF opts.Insecure THEN <<"Insecure">> ELSE <<>>
    IN  IF t.err # Nil
        THEN [registry |-> ZeroRegistry, err |-> t.err, read |-> t.read]
        ELSE [registry |-> [opts |-> <<t.transport, keychain>>, refOpts |-> refOpts],
              err |-> Nil, read |-> t.read]

PathLists == UNION {[1..n -> Paths] : n \in 0..MaxPaths}
Literals ==
    [CACertPaths : PathLists,
     VerifyCerts : {"omitted", "true", "false"},
     Insecure : BOOLEAN,
     EnvAuthPrefix : {"KBLD"}]

NewRegistry ==
    /\ pc = "new"
    /\ \E l \in Literals, files \in [Paths -> FileStates], sys \in BOOLEAN :
         LET r == NewRegistryResult(Opts(l), files, sys) IN
         /\ lit' = l
         /\ fs' = files
         /\ sysOK' = sys
         /\ registry' = r.registry
         /\ newErr' = r.err
         /\ filesRead' = r.read
    /\ pc' = "idle"
    /\ UNCHANGED opVars

\* ------------------------------------------------------- facade operations
\* entry of a facade operation up to and including its first
\* reference-normalising call
Enter_IgnoreErr(o) ==
    /\ pc \in {"idle", "done"}
    /\ registry # ZeroRegistry
    /\ \E r \in {Nil} \cup RefErrs :
         /\ trace' = <<Event(ParseFn(o), r)>>
         /\ ret' = Nil
         /\ pc' = IF o = "WriteTag" THEN "parse2"
                  ELSE IF o \in ReadOps THEN "call" ELSE "do"
    /\ op' = o
    /\ i' = 0
    /\ lastErr' = Nil
    /\ attempts' = <<>>
    /\ retryRet' = Nil
    /\ UNCHANGED newVars

Enter(o) ==
    /\ pc \in {"idle", "done"}
    /\ registry # ZeroRegistry
    /\ \E r \in {Nil} \cup RefErrs :
         /\ trace' = <<Event(ParseFn(o), r)>>
         /\ ret' = r
         /\ pc' = IF r # Nil THEN "done"
                  ELSE IF o = "WriteTag" THEN "parse2"
                  ELSE IF o \in ReadOps THEN "call" ELSE "do"
    /\ op' = o
    /\ i' = 0
    /\ lastErr' = Nil
    /\ attempts' = <<>>
    /\ retryRet' = Nil
    /\ UNCHANGED newVars

Generic == Enter("Generic")
Image == Enter("Image")
WriteImage == Enter("WriteImage")
Index == Enter("Index")
WriteIndex == Enter("WriteIndex")
WriteTag == Enter("WriteTag")
ListTags == Enter("ListTags")

\* WriteTag: srcRef, err = regname.NewDigest(...)
NewDigest ==
    /\ pc = "parse2"
    /\ \E r \in {Nil} \cup RefErrs :
         /\ trace' = Append(trace, Event("name.NewDigest", r))
         /\ ret' = r
         /\ pc' = IF r # Nil THEN "done" ELSE "do"
    /\ UNCHANGED <<op, i, lastErr, attempts, retryRet>>
    /\ UNCHANGED newVars

HasRemoteCall == \E p \in 1..Len(trace) : trace[p].fn \in RemoteFns

\* a read operation that calls the registry a second time after a failure
RemoteRead_Again ==
    /\ pc = "call"
    /\ \E r \in {Nil} \cup RegErrs :
         /\ trace' = Append(trace, Event(RemoteFn(op), r))
         /\ ret' = r
         /\ pc' = IF r # Nil /\ ~HasRemoteCall THEN "call" ELSE "done"
    /\ UNCHANGED <<op, i, lastErr, attempts, retryRet>>
    /\ UNCHANGED newVars

\* Generic, Image, Index, ListTags: the single registry call and the return
RemoteRead ==
    /\ pc = "call"
    /\ \E r \in {Nil} \cup RegErrs :
         /\ trace' = Append(trace, Event(RemoteFn(op), r))
         /\ ret' = r
         /\ pc' = "done"
    /\ UNCHANGED <<op, i, lastErr, attempts, retryRet>>
    /\ UNCHANGED newVars

\* ---------------------------------------------------------- retry executor
\* retry keeping the first failure instead of the last
Attempt_KeepFirst(r) ==
    /\ attempts' = Append(attempts, r)
    /\ lastErr' = IF lastErr = Nil THEN r ELSE lastErr
    /\ IF r = Nil
       THEN pc' = "wrap" /\ retryRet' = Nil
       ELSE pc' = "sleep" /\ UNCHANGED retryRet

\* retry: lastErr = doFunc(); if lastErr == nil { return nil }
Attempt(r) ==
    /\ attempts' = Append(attempts, r)
    /\ lastErr' = r
    /\ IF r = Nil
       THEN pc' = "wrap" /\ retryRet' = Nil
       ELSE pc' = "sleep" /\ UNCHANGED retryRet

\* doFunc of WriteImage and WriteIndex
DoWrite ==
    /\ pc = "do"
    /\ op \in {"WriteImage", "WriteIndex"}
    /\ \E r \in {Nil} \cup RegErrs :
         /\ trace' = Append(trace, Event(RemoteFn(op), r))
         /\ Attempt(r)
    /\ UNCHANGED <<op, i, ret>>
    /\ UNCHANGED newVars

\* doFunc of WriteTag that goes on to the tag step whatever the read returned
DoGet_IgnoreErr ==
    /\ pc = "do"
    /\ op = "WriteTag"
    /\ \E r \in {Nil} \cup RegErrs :
         /\ trace' = Append(trace, Event("remote.Get", r))
         /\ pc' = "tag"
         /\ UNCHANGED <<lastErr, attempts, retryRet>>
    /\ UNCHANGED <<op, i, ret>>
    /\ UNCHANGED newVars

\* doFunc of WriteTag: desc, err := regremote.Get(srcRef, ...)
DoGet ==
    /\ pc = "do"
    /\ op = "WriteTag"
    /\ \E r \in {Nil} \cup RegErrs :
         /\ trace' = Append(trace, Event("remote.Get", r))
         /\ IF r # Nil
            THEN Attempt(r)
            ELSE pc' = "tag" /\ UNCHANGED <<lastErr, attempts, retryRet>>
    /\ UNCHANGED <<op, i, ret>>
    /\ UNCHANGED newVars

\* doFunc of WriteTag: return regremote.Tag(dstRef, desc, ...)
DoTag ==
    /\ pc = "tag"
    /\ \E r \in {Nil} \cup RegErrs :
         /\ trace' = Append(trace, Event("remote.Tag", r))
         /\ Attempt(r)
    /\ UNCHANGED <<op, i, ret>>
    /\ UNCHANGED newVars

\* a retry loop that resumes WriteTag at the tag step after a failed tag
Sleep_ResumeAtTag ==
    /\ pc = "sleep"
    /\ trace' = Append(trace, SleepEvent)
    /\ i' = i + 1
    /\ IF i + 1 < MaxTries
       THEN /\ pc' = IF trace[Len(trace)].fn = "remote.Tag" THEN "tag" ELSE "do"
            /\ UNCHANGED retryRet
       ELSE /\ pc' = "wrap"
            /\ retryRet' = Errorf("Retried 5 times: ", lastErr)
    /\ UNCHANGED <<op, lastErr, attempts, ret>>
    /\ UNCHANGED newVars

\* retry: time.Sleep(1 * time.Second); i++; the loop test; the final Errorf
Sleep ==
    /\ pc = "sleep"
    /\ trace' = Append(trace, SleepEvent)
    /\ i' = i + 1
    /\ IF i + 1 < MaxTries
       THEN pc' = "do" /\ UNCHANGED retryRet
       ELSE /\ pc' = "wrap"
            /\ retryRet' = Errorf("Retried 5 times: ", lastErr)
    /\ UNCHANGED <<op, lastErr, attempts, ret>>
    /\ UNCHANGED newVars

\* a write operation that hands retry's error back as it is
Wrap_NoLabel ==
    /\ pc = "wrap"
    /\ ret' = retryRet
    /\ pc' = "done"
    /\ UNCHANGED <<op, i, lastErr, attempts, retryRet, trace>>
    /\ UNCHANGED newVars

\* WriteImage, WriteIndex, WriteTag after retry returned
Wrap ==
    /\ pc = "wrap"
    /\ ret' = IF retryRet # Nil THEN Errorf(Label(op), retryRet) ELSE Nil
    /\ pc' = "done"
    /\ UNCHANGED <<op, i, lastErr, attempts, retryRet, trace>>
    /\ UNCHANGED newVars

\* ----------------------------------------------------------- specifications
DefaultLit ==
    [CACertPaths |-> <<>>, VerifyCerts |-> "true", Insecure |-> FALSE,
     EnvAuthPrefix |-> "KBLD"]
AllOk == [p \in Paths |-> "ok"]

OpInit ==
    /\ op = "none"
    /\ i = 0
    /\ lastErr = Nil
    /\ attempts = <<>>
    /\ retryRet = Nil
    /\ ret = Nil
    /\ trace = <<>>

\* a client built by NewRegistry, about to be used
Init ==
    /\ \E b \in BOOLEAN :
         /\ lit = [DefaultLit EXCEPT !.Insecure = b]
         /\ registry = NewRegistryResult(Opts(lit), AllOk, TRUE).registry
    /\ fs = AllOk
    /\ sysOK = TRUE
    /\ newErr = Nil
    /\ filesRead = <<>>
    /\ pc = "idle"
    /\ OpInit

Next ==
    \/ Generic
    \/ Image
    \/ WriteImage
    \/ Index
    \/ WriteIndex
    \/ WriteTag
    \/ ListTags
    \/ NewDigest
    \/ RemoteRead
    \/ DoWrite
    \/ DoGet
    \/ DoTag
    \/ Sleep
    \/ Wrap

Spec == Init /\ [][Next]_vars

\* before the client is built
InitNew ==
    /\ lit = DefaultLit
    /\ fs = AllOk
    /\ sysOK = TRUE
    /\ registry = ZeroRegistry
    /\ newErr = Nil
    /\ filesRead = <<>>
    /\ pc = "new"
    /\ OpInit

NextNew == NewRegistry

SpecNew == InitNew /\ [][NextNew]_vars

\* ------------------------------------------------------------------ claims
Positions(f) == {p \in 1..Len(trace) : trace[p].fn = f}
Count(f) == Cardinality(Positions(f))
RemoteCalls == {p \in 1..Len(trace) : trace[p].fn \in RemoteFns}
Sleeps == Count("time.Sleep")
Returned == pc \in {"wrap", "done"}
Failures == {j \in 1..Len(attempts) : attempts[j] # Nil}
AllFailed == Len(attempts) = 5 /\ \A j \in 1..5 : attempts[j] # Nil
ParseFailed == \E p \in 1..Len(trace) : trace[p].fn \in ParseFns /\ trace[p].res # Nil
Tokens(e) == {e[k] : k \in 1..Len(e)}

\* C1: in the retry executor sleeps happen only between attempts: a run in
\* which all 5 attempts fail performs exactly 4 one-second sleeps, none
\* after the 5th attempt.
C1_SleepsOnlyBetweenAttempts ==
    (AllFailed /\ Returned) => Sleeps = 4

\* C2: for every k in 0..4, when the operation fails exactly k times and
\* then succeeds, retry goes on to invocation k+1, returns nil right after
\* it, never invokes the operation again, and has slept exactly k times.
C2_SucceedsAfterKFailures ==
    /\ (Len(attempts) > 0 /\ attempts[Len(attempts)] = Nil) =>
          /\ Returned
          /\ retryRet = Nil
          /\ Failures = 1..(Len(attempts) - 1)
          /\ Len(attempts) - 1 \in 0..4
          /\ Sleeps = Len(attempts) - 1
          /\ (pc = "done" => ret = Nil)
    /\ (op \in WriteOps /\ ~ParseFailed /\ Len(attempts) < 5
          /\ Failures = 1..Len(attempts)) => ~Returned

C2_Witness ==
    /\ pc = "done"
    /\ Len(attempts) = 5
    /\ Failures = 1..4
    /\ ret = Nil
    /\ Sleeps = 4

\* C3: when the operation fails on every attempt it is invoked exactly 5
\* times and retry returns one error, "Retried 5 times: " followed by the
\* cause of the 5th failure; the causes of attempts 1 to 4 are not in it.
C3_ExhaustedReportsLastCause ==
    /\ Len(attempts) <= 5
    /\ (Returned /\ Len(attempts) > 0 /\ Failures = 1..Len(attempts)) =>
          /\ Len(attempts) = 5
          /\ retryRet = <<"Retried 5 times: ">> \o attempts[5]
          /\ \A j \in 1..4 : attempts[j] # attempts[5] =>
                Tokens(attempts[j]) \cap Tokens(retryRet) = {}
    /\ (Returned /\ retryRet # Nil) => AllFailed

C3_Witness ==
    /\ pc = "done"
    /\ AllFailed
    /\ attempts[1] # attempts[5]
    /\ attempts[4] # attempts[5]
    /\ retryRet = <<"Retried 5 times: ">> \o attempts[5]

\* C4: the transport skips server certificate verification if and only if
\* the VerifyCerts flag was explicitly set to false; an Opts value in which
\* the flag is omitted yields a transport that enforces verification.
C4_SkipVerifyIffExplicitFalse ==
    (pc = "idle" /\ newErr = Nil) =>
        (registry.opts[1].InsecureSkipVerify <=> lit.VerifyCerts = "false")

\* C5: in WriteTag, when reading the source descriptor fails on every
\* attempt, the tag step is never invoked, the read is attempted exactly 5
\* times, and the call returns "Writing image tag: " wrapping the
\* retry-exhausted error.
C5_WriteTagReadAlwaysFails ==
    (op = "WriteTag" /\ \A p \in Positions("remote.Get") : trace[p].res # Nil) =>
        /\ Count("remote.Tag") = 0
        /\ (pc = "done" /\ ~ParseFailed) =>
              /\ Count("remote.Get") = 5
              /\ ret = <<"Writing image tag: ", "Retried 5 times: ">>
                          \o trace[Len(trace) - 1].res

C5_Witness ==
    /\ op = "WriteTag"
    /\ pc = "done"
    /\ Count("remote.Get") = 5
    /\ \A p \in Positions("remote.Get") : trace[p].res # Nil
    /\ ret[1] = "Writing image tag: "

C7_ParseFailureReturnsAtOnce ==
    \A p \in 1..Len(trace) :
        (trace[p].fn \in ParseFns /\ trace[p].res # Nil) =>
            /\ p = Len(trace)
            /\ pc = "done"
            /\ ret = trace[p].res
            /\ RemoteCalls = {}
            /\ Sleeps = 0
            /\ attempts = <<>>
            /\ i = 0

C7_Witness ==
    /\ pc = "done"
    /\ op = "WriteTag"
    /\ Len(trace) = 2
    /\ trace[1] = Event("name.NewTag", Nil)
    /\ trace[2].fn = "name.NewDigest"
    /\ trace[2].res # Nil
    /\ ret = trace[2].res

\* C8: Generic, Image, Index and ListTags are never retried: each call
\* invokes the registry-protocol function at most once, never sleeps, and
\* returns the error of that invocation verbatim.
C8_ReadsNotRetried ==
    op \in ReadOps =>
        /\ Cardinality(RemoteCalls) <= 1
        /\ Sleeps = 0
        /\ attempts = <<>>
        /\ \A p \in RemoteCalls :
              /\ trace[p].fn = RemoteFn(op)
              /\ pc = "done"
              /\ ret = trace[p].res

C8_Witness ==
    /\ op \in ReadOps
    /\ pc = "done"
    /\ Cardinality(RemoteCalls) = 1
    /\ ret \in RegErrs

\* C9: NewRegistry processes the CA paths in list order and fails fast: at
\* the first path that cannot be read or holds no certificate it returns
\* that path's error (the two kinds differ), reads no later path and
\* returns the zero Registry; it returns a client only when every path was
\* read and parsed.
BadPaths == {k \in 1..Len(lit.CACertPaths) : fs[lit.CACertPaths[k]] # "ok"}
FirstBad == CHOOSE k \in BadPaths : \A m \in BadPaths : k <= m

C9_CertLoadingFailsFast ==
    pc = "idle" =>
        IF BadPaths = {}
        THEN /\ newErr = Nil
             /\ registry # ZeroRegistry
             /\ filesRead = lit.CACertPaths
             /\ registry.opts[1].RootCAs \ {"system"} = Tokens(lit.CACertPaths)
        ELSE /\ registry = ZeroRegistry
             /\ filesRead = SubSeq(lit.CACertPaths, 1, FirstBad)
             /\ newErr[2] = lit.CACertPaths[FirstBad]
             /\ newErr[1] = IF fs[lit.CACertPaths[FirstBad]] = "unreadable"
                            THEN "Reading CA certificates from "
                            ELSE "Adding CA certificates from "

C9_Witness ==
    /\ pc = "idle"
    /\ Len(lit.CACertPaths) = 2
    /\ lit.CACertPaths[1] # lit.CACertPaths[2]
    /\ fs[lit.CACertPaths[1]] = "nocert"
    /\ fs[lit.CACertPaths[2]] = "unreadable"
    /\ registry = ZeroRegistry
    /\ filesRead = <<lit.CACertPaths[1]>>

\* C10: in WriteTag the read and the tag step form one retry attempt: every
\* attempt begins with the read, the tag step runs only right after a
\* successful read of the same attempt, a failure of either step consumes
\* exactly one attempt and the next attempt starts again from the read.
GetsOk == {p \in Positions("remote.Get") : trace[p].res = Nil}

C10_ReadAndTagAreOneAttempt ==
    op = "WriteTag" =>
        /\ \A p \in Positions("remote.Tag") :
              p > 1 /\ trace[p - 1] = Event("remote.Get", Nil)
        /\ \A p \in Positions("remote.Get") :
              p > 1 /\ trace[p - 1].fn \in {"name.NewDigest", "time.Sleep"}
        /\ \A p \in Positions("time.Sleep") :
              /\ trace[p - 1].fn \in {"remote.Get", "remote.Tag"}
              /\ trace[p - 1].res # Nil
              /\ p < Len(trace) => trace[p + 1].fn = "remote.Get"
        /\ Count("remote.Get") <= 5
        /\ Count("remote.Tag") <= Cardinality(GetsOk)
        /\ Count("remote.Get") = Len(attempts) + (IF pc = "tag" THEN 1 ELSE 0)
        /\ Cardinality(Failures) = i + (IF pc = "sleep" THEN 1 ELSE 0)
        /\ i = Sleeps

C10_Witness ==
    /\ op = "WriteTag"
    /\ pc = "done"
    /\ Count("remote.Get") = 5
    /\ Count("remote.Tag") = 2
    /\ trace[4] = Event("remote.Tag", attempts[1])
    /\ attempts[1] # Nil
    /\ trace[6].fn = "remote.Get"

====
